---- MODULE Spec2Model ----
(***************************************************************************)
(* State-machine model of the PixelCanvas component                        *)
(* (src/src/components/PixelCanvas/PixelCanvas.tsx): the pixel grid, the   *)
(* brush stamp, the snapshot history with its cursor, and the pointer and  *)
(* keyboard handlers.                                                      *)
(*                                                                         *)
(* One action is one browser event handled to the end: the handler, the    *)
(* state updates it queues, the re-render they cause and the effects that  *)
(* re-render runs.  Every handler therefore reads the state the previous   *)
(* event left behind.                                                      *)
(*                                                                         *)
(* The helpers isEdge and hsvToCss are imported by the component from      *)
(* files that are not part of the sources at hand; they are modelled from  *)
(* the specification.                                                      *)
(***************************************************************************)
EXTENDS Integers, Sequences, FiniteSets, TLC

VARIABLES
    pixels,        \* useState<string[][]>: the live grid, rows of cells
    history,       \* useState<string[][][]>: the snapshots
    historyStep,   \* useState<number>: the cursor, 0-based
    isDrawing,     \* useState<boolean>
    hoverPos,      \* useState<{row, col} | null>: <<>> or <<[row, col]>>
    isGrab,        \* AppStateContext
    penSize,       \* SelectedToolContext
    selectedTool,  \* SelectedToolContext
    selectedColor, \* SelectedToolContext
    logicWidth,    \* resolution.logicWidth, fixed for the component's life
    logicHeight,   \* resolution.logicHeight
    raised,        \* TRUE once a handler has thrown
    lastOp,        \* history variable: the kind of the last event handled
    preStroke,     \* history variable: the grid as it was at the last pointer-down
    dropped,       \* history variable: the entries the last commit discarded
    script         \* scenario: the inputs a scripted run is given

vars == <<pixels, history, historyStep, isDrawing, hoverPos, isGrab, penSize,
          selectedTool, selectedColor, logicWidth, logicHeight, raised,
          lastOp, preStroke, dropped, script>>

\* the variables that observe or drive the program and are no part of it
ghostVars == <<lastOp, preStroke, dropped, script>>

----------------------------------------------------------------------------
(* Bounds of the model *)

\* the longest history the model lets a commit build: handleMouseUp is not
\* taken when it would make the history longer
MaxHistory == 3

----------------------------------------------------------------------------
(* Configuration read from the contexts *)

\* canvas zoom factor
zoom == 2
\* screen pixels per cell at zoom 1
pixelSize == 4
\* canvasRef.current.getBoundingClientRect().left / .top
rectLeft == 10
rectTop == 20

\* hoverPos is null, or holds one {row, col}
NULL == <<>>
Some(cell) == <<cell>>
TRANSPARENT == "transparent"
PenSizes == {1, 2, 5}
Tools == {"pen", "eraser"}
Colors == {"hsv1"}

\* Math.min written for Math.max
MaxIsMin(a, b) == IF a <= b THEN a ELSE b

Max(a, b) == IF a >= b THEN a ELSE b
Min(a, b) == IF a <= b THEN a ELSE b

\* util/helpers/hsvToCss: the css colour string of an hsv colour
hsvToCss(hsv) == "css(" \o hsv \o ")"

\* util/helpers/isEdge: (dy, dx) lies in one of the four corner 2x2 blocks
\* of the size x size square
isEdge(size, dy, dx) ==
    /\ (dy <= 1 \/ dy >= size - 2)
    /\ (dx <= 1 \/ dx >= size - 2)

----------------------------------------------------------------------------
(* Grids *)

\* Array(logicHeight).fill(null).map(() => Array(logicWidth).fill("transparent"))
BlankGrid(h, w) == [r \in 0..(h - 1) |-> [c \in 0..(w - 1) |-> TRANSPARENT]]

\* g.map((row) => [...row])
CopyGrid(g) == [r \in DOMAIN g |-> [c \in DOMAIN g[r] |-> g[r][c]]]

\* a commit that keeps the entries beyond the cursor
SliceKeepsAll(s, end) == s

\* prev.slice(1, end): a commit that drops the first entry
SliceDropsFirst(s, end) == SubSeq(s, 2, Min(end, Len(s)))

\* prev.slice(0, end)
Slice(s, end) == SubSeq(s, 1, Min(end, Len(s)))

\* the bounds test without the test against the width
InBoundsNoWidth(r, c) == r >= 0 /\ r < logicHeight /\ c >= 0

\* the bounds test without the tests against 0
InBoundsNoLower(r, c) == r < logicHeight /\ c < logicWidth

\* the bounds test of drawPixel and drawGhostBrush
InBounds(r, c) == r >= 0 /\ r < logicHeight /\ c >= 0 /\ c < logicWidth

\* newPixels[r][c] = v on a JavaScript array of arrays: a missing row throws,
\* a missing column is created
WriteCell(st, r, c, v) ==
    IF r \notin DOMAIN st.grid
    THEN [st EXCEPT !.err = TRUE]
    ELSE [st EXCEPT !.grid =
            [st.grid EXCEPT ![r] =
                [x \in (DOMAIN st.grid[r]) \cup {c} |->
                    IF x = c THEN v ELSE st.grid[r][x]]]]

\* the cells the loops of drawPixel and drawGhostBrush reach from (row, col),
\* on the grid or off it
Footprint(row, col) ==
    {<<row + dy, col + dx>> : <<dy, dx>> \in
        {o \in (0..(penSize - 1)) \X (0..(penSize - 1)) :
            ~(penSize > 2 /\ isEdge(penSize, o[1], o[2]))}}

\* the colour a stamp writes
BrushColor == IF selectedTool = "eraser" THEN TRANSPARENT ELSE hsvToCss(selectedColor)

\* the loops of drawPixel with the corner test applied from pen size 2 on
RECURSIVE StampFromTrimsTwo(_, _, _, _)
StampFromTrimsTwo(st, row, col, k) ==
    IF k >= penSize * penSize \/ st.err THEN st
    ELSE LET dy == k \div penSize
             dx == k % penSize
             r == row + dy
             c == col + dx
         IN  IF penSize > 1 /\ isEdge(penSize, dy, dx)
             THEN StampFromTrimsTwo(st, row, col, k + 1)
             ELSE IF InBounds(r, c)
                  THEN StampFromTrimsTwo(WriteCell(st, r, c, BrushColor), row, col, k + 1)
                  ELSE StampFromTrimsTwo(st, row, col, k + 1)

\* the loops of drawPixel with the corner test applied from pen size 4 on
RECURSIVE StampFromTrimsFour(_, _, _, _)
StampFromTrimsFour(st, row, col, k) ==
    IF k >= penSize * penSize \/ st.err THEN st
    ELSE LET dy == k \div penSize
             dx == k % penSize
             r == row + dy
             c == col + dx
         IN  IF penSize > 3 /\ isEdge(penSize, dy, dx)
             THEN StampFromTrimsFour(st, row, col, k + 1)
             ELSE IF InBounds(r, c)
                  THEN StampFromTrimsFour(WriteCell(st, r, c, BrushColor), row, col, k + 1)
                  ELSE StampFromTrimsFour(st, row, col, k + 1)

\* the two nested loops of drawPixel, from iteration k = dy * penSize + dx on
RECURSIVE StampFrom(_, _, _, _)
StampFrom(st, row, col, k) ==
    IF k >= penSize * penSize \/ st.err THEN st
    ELSE LET dy == k \div penSize
             dx == k % penSize
             r == row + dy
             c == col + dx
         IN  IF penSize > 2 /\ isEdge(penSize, dy, dx)
             THEN StampFrom(st, row, col, k + 1)
             ELSE IF InBounds(r, c)
                  THEN StampFrom(WriteCell(st, r, c, BrushColor), row, col, k + 1)
                  ELSE StampFrom(st, row, col, k + 1)

\* the updater drawPixel hands to setPixels
Stamp(prev, row, col) == StampFrom([grid |-> CopyGrid(prev), err |-> FALSE], row, col, 0)

\* the loops of drawGhostBrush without the corner test
RECURSIVE GhostFromUntrimmed(_, _, _, _)
GhostFromUntrimmed(filled, row, col, k) ==
    IF k >= penSize * penSize THEN filled
    ELSE LET dy == k \div penSize
             dx == k % penSize
             r == row + dy
             c == col + dx
         IN  IF r >= 0 /\ r < logicHeight /\ c >= 0 /\ c < logicWidth
             THEN GhostFromUntrimmed(filled \cup {<<r, c>>}, row, col, k + 1)
             ELSE GhostFromUntrimmed(filled, row, col, k + 1)

\* the two nested loops of drawGhostBrush, from iteration k = dy * penSize + dx
\* on: the cells handed to fillRect
RECURSIVE GhostFrom(_, _, _, _)
GhostFrom(filled, row, col, k) ==
    IF k >= penSize * penSize THEN filled
    ELSE LET dy == k \div penSize
             dx == k % penSize
             r == row + dy
             c == col + dx
         IN  IF penSize > 2 /\ isEdge(penSize, dy, dx)
             THEN GhostFrom(filled, row, col, k + 1)
             ELSE IF r >= 0 /\ r < logicHeight /\ c >= 0 /\ c < logicWidth
                  THEN GhostFrom(filled \cup {<<r, c>>}, row, col, k + 1)
                  ELSE GhostFrom(filled, row, col, k + 1)

\* drawGhostBrush without the test of isDrawing
drawGhostBrushWhileDrawing ==
    IF hoverPos # NULL /\ ~isGrab
    THEN GhostFrom({}, hoverPos[1].row, hoverPos[1].col, 0)
    ELSE {}

\* drawGhostBrush: the cells of the preview
drawGhostBrush ==
    IF hoverPos # NULL /\ ~isDrawing /\ ~isGrab
    THEN GhostFrom({}, hoverPos[1].row, hoverPos[1].col, 0)
    ELSE {}

\* Math.floor written as Math.trunc: rounding towards 0
TruncCellAt(clientX, clientY, left, top, z, size) ==
    LET Trunc(a, b) == IF a >= 0 THEN a \div b ELSE -((-a) \div b)
    IN  [row |-> Trunc(clientY - top, z * size),
         col |-> Trunc(clientX - left, z * size)]

\* the arithmetic of getCell: Math.floor(((clientX - rect.left) / zoom) / pixelSize),
\* the divisions being exact and \div rounding towards minus infinity
getCellAt(clientX, clientY, left, top, z, size) ==
    [row |-> (clientY - top) \div (z * size),
     col |-> (clientX - left) \div (z * size)]

\* getCell: screen position to grid cell
getCell(clientX, clientY) == getCellAt(clientX, clientY, rectLeft, rectTop, zoom, pixelSize)

\* the effect on [historyStep]: runs after a render in which historyStep changed
HistoryStepEffect(oldPixels, newHistory, oldStep, newStep) ==
    IF newStep # oldStep /\ (newStep + 1) \in DOMAIN newHistory
    THEN CopyGrid(newHistory[newStep + 1])
    ELSE oldPixels

----------------------------------------------------------------------------
(* The handlers *)

\* drawPixel without the early return in grab mode
drawPixelIgnoresGrab(row, col) ==
    \E st \in {Stamp(pixels, row, col)} :
        /\ pixels' = IF st.err THEN pixels ELSE st.grid
        /\ raised' = (raised \/ st.err)

\* drawPixel(row, col)
drawPixel(row, col) ==
    IF isGrab
    THEN UNCHANGED <<pixels, raised>>
    ELSE \E st \in {Stamp(pixels, row, col)} :
            /\ pixels' = IF st.err THEN pixels ELSE st.grid
            /\ raised' = (raised \/ st.err)

handleMouseDown(clientX, clientY) ==
    LET cell == getCell(clientX, clientY)
    IN  /\ drawPixel(cell.row, cell.col)
        /\ isDrawing' = TRUE
        /\ UNCHANGED <<history, historyStep, hoverPos, isGrab, penSize,
                       selectedTool, selectedColor, logicWidth, logicHeight>>

\* a pointer-move that stamps only while the pointer has a hover position
handleMouseMoveHovering(clientX, clientY) ==
    LET cell == getCell(clientX, clientY)
    IN  /\ hoverPos' = Some(cell)
        /\ IF isDrawing /\ hoverPos # NULL
           THEN drawPixel(cell.row, cell.col)
           ELSE UNCHANGED <<pixels, raised>>
        /\ UNCHANGED <<history, historyStep, isDrawing, isGrab, penSize,
                       selectedTool, selectedColor, logicWidth, logicHeight>>

handleMouseMove(clientX, clientY) ==
    LET cell == getCell(clientX, clientY)
    IN  /\ hoverPos' = Some(cell)
        /\ IF isDrawing
           THEN drawPixel(cell.row, cell.col)
           ELSE UNCHANGED <<pixels, raised>>
        /\ UNCHANGED <<history, historyStep, isDrawing, isGrab, penSize,
                       selectedTool, selectedColor, logicWidth, logicHeight>>

\* a commit that skips a grid equal to the entry under the cursor
handleMouseUpDedup ==
    /\ historyStep + 2 <= MaxHistory
    /\ isDrawing' = FALSE
    /\ IF pixels = history[historyStep + 1]
       THEN UNCHANGED <<history, historyStep, pixels>>
       ELSE /\ history' = Append(Slice(history, historyStep + 1), CopyGrid(pixels))
            /\ historyStep' = historyStep + 1
            /\ pixels' = HistoryStepEffect(pixels, history', historyStep, historyStep')
    /\ UNCHANGED <<hoverPos, isGrab, penSize, selectedTool, selectedColor,
                   logicWidth, logicHeight, raised>>

handleMouseUp ==
    /\ historyStep + 2 <= MaxHistory
    /\ isDrawing' = FALSE
    /\ LET newPixels == CopyGrid(pixels)
           newHistory == Slice(history, historyStep + 1)
       IN  history' = Append(newHistory, newPixels)
    /\ historyStep' = historyStep + 1
    /\ pixels' = HistoryStepEffect(pixels, history', historyStep, historyStep')
    /\ UNCHANGED <<hoverPos, isGrab, penSize, selectedTool, selectedColor,
                   logicWidth, logicHeight, raised>>

\* a pointer-leave that also ends the stroke in progress
handleMouseLeaveEndsStroke ==
    /\ hoverPos' = NULL
    /\ isDrawing' = FALSE
    /\ UNCHANGED <<pixels, history, historyStep, isGrab, penSize,
                   selectedTool, selectedColor, logicWidth, logicHeight, raised>>

handleMouseLeave ==
    /\ hoverPos' = NULL
    /\ UNCHANGED <<pixels, history, historyStep, isDrawing, isGrab, penSize,
                   selectedTool, selectedColor, logicWidth, logicHeight, raised>>

\* key.toLocaleLowerCase()
toLocaleLowerCase(key) == IF key = "Z" THEN "z" ELSE key

\* an undo that also ends the stroke in progress
handleKeyDownEndsStroke(ctrlKey, key) ==
    /\ IF ctrlKey /\ toLocaleLowerCase(key) = "z"
       THEN /\ historyStep' = Max(0, historyStep - 1)
            /\ pixels' = HistoryStepEffect(pixels, history, historyStep, historyStep')
            /\ isDrawing' = FALSE
       ELSE UNCHANGED <<historyStep, pixels, isDrawing>>
    /\ UNCHANGED <<history, hoverPos, isGrab, penSize, selectedTool,
                   selectedColor, logicWidth, logicHeight, raised>>

\* an undo that also discards the entries beyond the new cursor
handleKeyDownTruncates(ctrlKey, key) ==
    /\ IF ctrlKey /\ toLocaleLowerCase(key) = "z"
       THEN /\ historyStep' = Max(0, historyStep - 1)
            /\ history' = Slice(history, historyStep' + 1)
            /\ pixels' = HistoryStepEffect(pixels, history', historyStep, historyStep')
       ELSE UNCHANGED <<historyStep, history, pixels>>
    /\ UNCHANGED <<isDrawing, hoverPos, isGrab, penSize, selectedTool,
                   selectedColor, logicWidth, logicHeight, raised>>

handleKeyDown(ctrlKey, key) ==
    /\ IF ctrlKey /\ toLocaleLowerCase(key) = "z"
       THEN /\ historyStep' = Max(0, historyStep - 1)
            /\ pixels' = HistoryStepEffect(pixels, history, historyStep, historyStep')
       ELSE UNCHANGED <<historyStep, pixels>>
    /\ UNCHANGED <<history, isDrawing, hoverPos, isGrab, penSize, selectedTool,
                   selectedColor, logicWidth, logicHeight, raised>>

\* the tool controls change the pen size, the tool and the colour
selectTool(size, tool, color) ==
    /\ <<size, tool, color>> # <<penSize, selectedTool, selectedColor>>
    /\ penSize' = size
    /\ selectedTool' = tool
    /\ selectedColor' = color
    /\ UNCHANGED <<pixels, history, historyStep, isDrawing, hoverPos, isGrab,
                   logicWidth, logicHeight, raised>>

\* the grab/pan mode is switched on or off
toggleGrab ==
    /\ isGrab' = ~isGrab
    /\ UNCHANGED <<pixels, history, historyStep, isDrawing, hoverPos, penSize,
                   selectedTool, selectedColor, logicWidth, logicHeight, raised>>

----------------------------------------------------------------------------
(* The component after its first render and mount effects *)

Mounted(h, w) ==
    /\ logicHeight = h
    /\ logicWidth = w
    /\ pixels = BlankGrid(h, w)
    /\ history = <<CopyGrid(BlankGrid(h, w))>>
    /\ historyStep = 0
    /\ isDrawing = FALSE
    /\ hoverPos = NULL
    /\ raised = FALSE
    /\ lastOp = "mount"
    /\ preStroke = BlankGrid(h, w)
    /\ dropped = 0

\* no scripted stroke
NoScript == [todo |-> <<>>, done |-> <<>>, fresh |-> TRUE]

\* the screen position of the middle of cell (row, col)
XOf(col) == rectLeft + col * zoom * pixelSize + zoom
YOf(row) == rectTop + row * zoom * pixelSize + zoom

----------------------------------------------------------------------------
(* Spec: every event in every order, on a grid of 1 row and 2 columns.     *)
(* The pointer reaches the cells around the grid as well, so that stamps   *)
(* fall off every side of it.                                              *)

GridHeight == 1
GridWidth == 2
PointerXs == {XOf(c) : c \in -1..(GridWidth - 1)}
PointerYs == {YOf(r) : r \in -1..(GridHeight - 1)}
Keys == {"Z", "y"}

Init ==
    /\ Mounted(GridHeight, GridWidth)
    /\ isGrab = FALSE
    /\ penSize = 1
    /\ selectedTool = "pen"
    /\ selectedColor \in Colors
    /\ script = NoScript

MouseDown ==
    /\ \E x \in PointerXs, y \in PointerYs : handleMouseDown(x, y)
    /\ UNCHANGED ghostVars

MouseMove ==
    /\ \E x \in PointerXs, y \in PointerYs : handleMouseMove(x, y)
    /\ UNCHANGED ghostVars

MouseUp ==
    /\ handleMouseUp
    /\ UNCHANGED ghostVars

MouseLeave ==
    /\ handleMouseLeave
    /\ UNCHANGED ghostVars

KeyDown ==
    /\ \E ctrlKey \in BOOLEAN, key \in Keys : handleKeyDown(ctrlKey, key)
    /\ UNCHANGED ghostVars

SelectTool ==
    /\ \E size \in PenSizes, tool \in Tools, color \in Colors : selectTool(size, tool, color)
    /\ UNCHANGED ghostVars

ToggleGrab ==
    /\ toggleGrab
    /\ UNCHANGED ghostVars

Next ==
    \/ MouseDown
    \/ MouseMove
    \/ MouseUp
    \/ MouseLeave
    \/ KeyDown
    \/ SelectTool
    \/ ToggleGrab

Spec == Init /\ [][Next]_vars

----------------------------------------------------------------------------
(* Claims checked under Spec *)

\* g has logicHeight rows of logicWidth cells
DimensionsOk(g) ==
    /\ DOMAIN g = 0..(logicHeight - 1)
    /\ \A r \in DOMAIN g : DOMAIN g[r] = 0..(logicWidth - 1)


\* the in-range cells whose value differs between two grids
Changed(g1, g2) ==
    {rc \in (0..(logicHeight - 1)) \X (0..(logicWidth - 1)) :
        g1[rc[1]][rc[2]] # g2[rc[1]][rc[2]]}

\* C3: the cursor is an index of the history
C3_CursorInRange == historyStep >= 0 /\ historyStep <= Len(history) - 1

\* commits, undo presses back to the first entry, a new stroke and a move
C3_Witness ==
    /\ Len(history) = 3
    /\ historyStep = 0
    /\ isDrawing
    /\ hoverPos # NULL

\* C9: the grid and every history entry keep logicHeight rows of logicWidth
\* cells and no handler throws; a pointer-down or pointer-move changes no cell
\* outside the footprint of its cell
C9_BoundsChecked ==
    /\ [](/\ DimensionsOk(pixels)
          /\ \A i \in 1..Len(history) : DimensionsOk(history[i])
          /\ ~raised)
    /\ [][pixels' # pixels =>
            \A x \in PointerXs, y \in PointerYs :
                (handleMouseDown(x, y) \/ handleMouseMove(x, y)) =>
                    Changed(pixels, pixels') \subseteq
                        Footprint(getCell(x, y).row, getCell(x, y).col)]_vars

\* a stamp of size 2 at (-1, 1): of its four cells only (0, 1) is on the grid
C9_Witness ==
    /\ isDrawing
    /\ ~isGrab
    /\ penSize = 2
    /\ selectedTool = "pen"
    /\ hoverPos = Some([row |-> -1, col |-> 1])
    /\ history = <<BlankGrid(logicHeight, logicWidth)>>
    /\ pixels[0][0] = TRANSPARENT
    /\ pixels[0][1] = hsvToCss(selectedColor)

\* C10: in grab mode a pointer-down and a pointer-move leave every cell as it is
C10_GrabSuppressesStamps ==
    [][\A x \in PointerXs, y \in PointerYs :
          (isGrab /\ (handleMouseDown(x, y) \/ handleMouseMove(x, y)))
              => pixels' = pixels]_vars

\* grab mode, a stroke begun and the pointer moved over (0, 0) with the pen:
\* the grid is still blank
C10_Witness ==
    /\ isGrab
    /\ isDrawing
    /\ selectedTool = "pen"
    /\ penSize = 1
    /\ hoverPos = Some([row |-> 0, col |-> 0])
    /\ history = <<BlankGrid(logicHeight, logicWidth)>>
    /\ pixels = BlankGrid(logicHeight, logicWidth)

\* the grid after a stamp at (row, col): the cells of the footprint that are on
\* the grid hold the brush colour, every other cell is as it was
Stamped(g, row, col) ==
    [r \in 0..(logicHeight - 1) |-> [c \in 0..(logicWidth - 1) |->
        IF <<r, c>> \in Footprint(row, col) THEN BrushColor ELSE g[r][c]]]

\* C11: while a stroke is in progress and grab mode is off, every pointer-move,
\* whether or not a pointer-leave came before it, stamps at its cell: every
\* on-grid cell of the footprint then holds the brush colour and every other
\* cell, the earlier stamps of the stroke included, is as it was
C11_NoStampDropped ==
    [][(isDrawing /\ ~isGrab) =>
          \A x \in PointerXs, y \in PointerYs :
              handleMouseMove(x, y) =>
                  pixels' = Stamped(pixels, getCell(x, y).row, getCell(x, y).col)]_vars

\* a stroke that has stamped (0, 0) and then, by a move, (0, 1), uncommitted
C11_Witness ==
    /\ isDrawing
    /\ ~isGrab
    /\ penSize = 1
    /\ selectedTool = "pen"
    /\ hoverPos = Some([row |-> 0, col |-> 1])
    /\ history = <<BlankGrid(logicHeight, logicWidth)>>
    /\ pixels[0][0] = hsvToCss(selectedColor)
    /\ pixels[0][1] = hsvToCss(selectedColor)

\* C14: a pointer-move received while no stroke is in progress and a
\* pointer-leave received in any state change the hover position and nothing
\* else, so the grid, the history and the cursor stay as they are; and the
\* preview has no cell whenever the hover position is absent, grab mode is on
\* or a stroke is in progress
C14_PreviewLeavesStateAlone ==
    /\ [][(\/ handleMouseLeave
           \/ ~isDrawing /\ \E x \in PointerXs, y \in PointerYs : handleMouseMove(x, y))
             => UNCHANGED <<pixels, history, historyStep, isDrawing, raised>>]_vars
    /\ []((hoverPos = NULL \/ isGrab \/ isDrawing) => drawGhostBrush = {})

\* a committed stroke over (0, 1), then grab mode and the pointer moved over
\* (0, 0): Idle with a hover position and no preview
C14_Witness ==
    /\ ~isDrawing
    /\ isGrab
    /\ penSize = 1
    /\ hoverPos = Some([row |-> 0, col |-> 0])
    /\ pixels[0][0] = TRANSPARENT
    /\ pixels[0][1] = hsvToCss(selectedColor)
    /\ history = <<BlankGrid(logicHeight, logicWidth), pixels>>
    /\ historyStep = 1
    /\ drawGhostBrush = {}

----------------------------------------------------------------------------
(* SpecObserved: the same handlers on the same grid, with the history      *)
(* variables kept: the kind of the last event, the grid at the last        *)
(* pointer-down, the number of entries the last commit discarded.  The     *)
(* pointer stays on the grid and the pen size is 1.                        *)

ObsXs == {XOf(c) : c \in 0..(GridWidth - 1)}
ObsYs == {YOf(r) : r \in 0..(GridHeight - 1)}
ObsKeys == {"z", "y"}

\* the last event was a pointer-down or a pointer-move of the stroke it began
InPureStroke == lastOp \in {"down", "strokeMove"}

ObsDown ==
    /\ \E x \in ObsXs, y \in ObsYs : handleMouseDown(x, y)
    /\ lastOp' = "down"
    /\ preStroke' = pixels
    /\ UNCHANGED <<dropped, script>>

ObsMove ==
    /\ \E x \in ObsXs, y \in ObsYs : handleMouseMove(x, y)
    /\ lastOp' = IF InPureStroke THEN "strokeMove" ELSE "move"
    /\ UNCHANGED <<preStroke, dropped, script>>

ObsUp ==
    /\ handleMouseUp
    /\ lastOp' = IF InPureStroke THEN "strokeUp" ELSE "up"
    /\ dropped' = Len(history) - (historyStep + 1)
    /\ UNCHANGED <<preStroke, script>>

ObsLeave ==
    /\ handleMouseLeave
    /\ lastOp' = "leave"
    /\ UNCHANGED <<preStroke, dropped, script>>

ObsKey ==
    /\ \E key \in ObsKeys :
          /\ handleKeyDown(TRUE, key)
          /\ lastOp' = IF toLocaleLowerCase(key) = "z" THEN "undo" ELSE "key"
    /\ UNCHANGED <<preStroke, dropped, script>>

ObsTool ==
    /\ \E tool \in Tools : selectTool(1, tool, selectedColor)
    /\ lastOp' = IF InPureStroke THEN lastOp ELSE "tool"
    /\ UNCHANGED <<preStroke, dropped, script>>

NextObserved ==
    \/ ObsDown
    \/ ObsMove
    \/ ObsUp
    \/ ObsLeave
    \/ ObsKey
    \/ ObsTool

SpecObserved == Init /\ [][NextObserved]_vars

----------------------------------------------------------------------------
(* Claims checked under SpecObserved *)

\* the live grid is the entry under the cursor
GridIsCursorEntry == pixels = history[historyStep + 1]

\* C1: a stroke (pointer-down, pointer-moves, pointer-up) followed at once by
\* one undo leaves the grid as it was just before the stroke's pointer-down,
\* whatever the grid held then
C1_RoundTrip ==
    [][(lastOp = "strokeUp" /\ lastOp' = "undo") => pixels' = preStroke]_vars

\* C2: after every pointer-up and every undo key press the live grid equals
\* history[cursor]
C2_SettledGridIsCursorEntry ==
    [][lastOp' \in {"strokeUp", "up", "undo"} => GridIsCursorEntry']_vars

\* C5: a step that adds a history entry or advances the cursor is a
\* pointer-up received while a stroke is in progress
C5_OnlyStrokeCommits ==
    [][(history' # history \/ historyStep' > historyStep)
          => (isDrawing /\ lastOp' \in {"strokeUp", "up"})]_vars

\* C6: a commit keeps the entries [0..cursor], appends the grid and nothing
\* else, so every entry beyond the old cursor is gone; an undo leaves the
\* history alone, moves the cursor one step back and restores the entry under
\* it, so no undo restores an entry that a commit discarded
C6_Truncation ==
    [][/\ lastOp' \in {"strokeUp", "up"} =>
            /\ Len(history') = historyStep + 2
            /\ \A i \in 1..(historyStep + 1) : history'[i] = history[i]
            /\ history'[historyStep + 2] = pixels
            /\ historyStep' = Len(history') - 1
            /\ dropped' = Len(history) - (historyStep + 1)
       /\ lastOp' = "undo" =>
            /\ history' = history
            /\ historyStep' = IF historyStep = 0 THEN 0 ELSE historyStep - 1
            /\ pixels' = IF historyStep = 0 THEN pixels ELSE history[historyStep]
      ]_vars

\* two undo presses, then a commit that discarded two entries, then an undo
C6_Witness ==
    /\ dropped = 2
    /\ lastOp = "undo"
    /\ Len(history) = 2
    /\ historyStep = 0

\* C7: undo at cursor 0 changes neither the cursor, nor the history, nor the
\* Drawing/Idle state, and raises nothing
C7_UndoAtZeroIsNoOp ==
    [][(historyStep = 0 /\ lastOp' = "undo") =>
            /\ historyStep' = 0
            /\ history' = history
            /\ isDrawing' = isDrawing
            /\ ~raised']_vars

\* undo pressed at cursor 0 during a stroke: the stamps are still on the grid
C7_Witness ==
    /\ lastOp = "undo"
    /\ historyStep = 0
    /\ isDrawing
    /\ pixels # history[1]

\* C15: isDrawing becomes TRUE only by a pointer-down and FALSE only by a
\* pointer-up; a pointer-leave clears the hover position and keeps isDrawing,
\* the grid, the history and the cursor; an undo key press keeps isDrawing;
\* so a stroke stays in progress, with the history as it is and the cursor
\* not advanced, through every event that is not a pointer-up, and its stamps
\* stay on the grid through every pointer-leave, tool change and other key
C15_StrokeEndsOnlyOnPointerUp ==
    [][/\ (isDrawing' /\ ~isDrawing) => lastOp' = "down"
       /\ (~isDrawing' /\ isDrawing) => lastOp' \in {"strokeUp", "up"}
       /\ lastOp' = "leave" =>
            /\ hoverPos' = NULL
            /\ UNCHANGED <<isDrawing, pixels, history, historyStep>>
       /\ lastOp' = "undo" => isDrawing' = isDrawing
       /\ (isDrawing /\ lastOp' \notin {"strokeUp", "up"}) =>
            /\ isDrawing'
            /\ history' = history
            /\ historyStep' <= historyStep
       /\ (isDrawing /\ lastOp' \in {"leave", "key", "tool"}) => pixels' = pixels
      ]_vars

\* a stroke has stamped (0, 0) and the pointer has left the canvas: still
\* Drawing, nothing committed, the stamp on the grid
C15_Witness ==
    /\ lastOp = "leave"
    /\ isDrawing
    /\ hoverPos = NULL
    /\ history = <<BlankGrid(logicHeight, logicWidth)>>
    /\ historyStep = 0
    /\ pixels[0][0] = hsvToCss(selectedColor)

\* C19: the first history entry is the all-transparent grid in every state,
\* and an undo that moves the cursor from a positive value to 0 leaves the
\* grid all transparent
C19_FirstEntryIsBlank ==
    /\ [](/\ Len(history) >= 1
          /\ history[1] = BlankGrid(logicHeight, logicWidth))
    /\ [][(lastOp' = "undo" /\ historyStep > 0 /\ historyStep' = 0) =>
            pixels' = BlankGrid(logicHeight, logicWidth)]_vars

\* two painted commits, then undo pressed in a new stroke until the cursor is
\* 0: the grid is blank and the later entries are still painted
C19_Witness ==
    /\ lastOp = "undo"
    /\ historyStep = 0
    /\ Len(history) = 3
    /\ history[2] # BlankGrid(logicHeight, logicWidth)
    /\ history[3] # history[2]
    /\ isDrawing
    /\ pixels = BlankGrid(logicHeight, logicWidth)

\* C20: an undo changes nothing but the cursor and the live grid: the history
\* keeps its length and every entry, those beyond the new cursor included,
\* and the Drawing/Idle state, the hover position and the tool stay as they
\* are; the history is changed by no event other than the commit of a
\* pointer-up, so the entries beyond the cursor stay until then
C20_UndoKeepsHistory ==
    [][/\ lastOp' = "undo" =>
            /\ history' = history
            /\ Len(history') = Len(history)
            /\ UNCHANGED <<isDrawing, hoverPos, isGrab, penSize, selectedTool,
                           selectedColor, raised>>
       /\ lastOp' \notin {"strokeUp", "up"} => history' = history
      ]_vars

\* three entries and one undo: the cursor is on the second entry, the grid is
\* that entry and the third entry is still there
C20_Witness ==
    /\ lastOp = "undo"
    /\ ~isDrawing
    /\ Len(history) = 3
    /\ historyStep = 1
    /\ pixels = history[2]
    /\ history[3] # history[2]

----------------------------------------------------------------------------
(* SpecScenario: one scripted stroke on a 3 x 3 grid.  The component is    *)
(* Idle, freshly mounted or with earlier strokes committed and possibly    *)
(* undone; the pointer goes down on the first cell of the script, moves    *)
(* over the others, goes up, and undo is pressed once.                     *)

\* the most cells one scripted stroke visits
MaxStroke == 3

Cell(r, c) == [row |-> r, col |-> c]
ScriptCells == {Cell(0, 0), Cell(0, 1), Cell(0, 2), Cell(1, 1)}
Scripts == UNION {[1..k -> ScriptCells] : k \in 1..MaxStroke}
ScenarioPens == {1, 2}

Blank3 == BlankGrid(3, 3)
Earlier1 == [Blank3 EXCEPT ![1][1] = hsvToCss("hsv1")]
Earlier2 == [Earlier1 EXCEPT ![2][0] = hsvToCss("hsv1")]
\* the histories of no, one and two earlier committed strokes
StartHistories == {<<Blank3>>, <<Blank3, Earlier1>>, <<Blank3, Earlier1, Earlier2>>}

InitScenario ==
    /\ logicHeight = 3
    /\ logicWidth = 3
    /\ history \in StartHistories
    /\ historyStep \in 0..(Len(history) - 1)
    /\ pixels = CopyGrid(history[historyStep + 1])
    /\ isDrawing = FALSE
    /\ hoverPos = NULL
    /\ raised = FALSE
    /\ isGrab \in BOOLEAN
    /\ penSize \in ScenarioPens
    /\ selectedTool \in Tools
    /\ selectedColor \in Colors
    /\ lastOp = "mount"
    /\ preStroke = pixels
    /\ dropped = 0
    /\ \E cells \in Scripts :
          script = [todo |-> cells, done |-> <<>>, fresh |-> (history = <<Blank3>>)]

\* the script with its first cell visited
Visit == [script EXCEPT !.todo = Tail(script.todo),
                        !.done = Append(script.done, Head(script.todo))]

ScriptDown ==
    /\ lastOp = "mount"
    /\ script.todo # <<>>
    /\ handleMouseDown(XOf(Head(script.todo).col), YOf(Head(script.todo).row))
    /\ script' = Visit
    /\ lastOp' = "down"
    /\ preStroke' = pixels
    /\ UNCHANGED dropped

ScriptMove ==
    /\ InPureStroke
    /\ script.todo # <<>>
    /\ handleMouseMove(XOf(Head(script.todo).col), YOf(Head(script.todo).row))
    /\ script' = Visit
    /\ lastOp' = "strokeMove"
    /\ UNCHANGED <<preStroke, dropped>>

ScriptUp ==
    /\ InPureStroke
    /\ script.todo = <<>>
    /\ handleMouseUp
    /\ lastOp' = "strokeUp"
    /\ dropped' = Len(history) - (historyStep + 1)
    /\ UNCHANGED <<preStroke, script>>

ScriptUndo ==
    /\ lastOp = "strokeUp"
    /\ handleKeyDown(TRUE, "z")
    /\ lastOp' = "undo"
    /\ UNCHANGED <<preStroke, dropped, script>>

NextScenario ==
    \/ ScriptDown
    \/ ScriptMove
    \/ ScriptUp
    \/ ScriptUndo

SpecScenario == InitScenario /\ [][NextScenario]_vars

\* the cells of a grid that are not transparent
Painted(g) ==
    {rc \in (0..(logicHeight - 1)) \X (0..(logicWidth - 1)) :
        g[rc[1]][rc[2]] # TRANSPARENT}

\* the cells the scripted stroke has visited
DoneCells == {<<script.done[i].row, script.done[i].col>> : i \in 1..Len(script.done)}

\* the stroke began on the freshly mounted component, painting with pen size 1
FreshPenStroke == script.fresh /\ penSize = 1 /\ selectedTool = "pen" /\ ~isGrab

\* C4: the pointer-up that ends a stroke leaves the history as the old
\* entries [0..cursor] followed by one copy of the grid, with the cursor on
\* that last entry, whether or not the stroke changed a cell; a pen-size-1
\* paint stroke on the fresh grid leaves exactly the visited cells coloured,
\* history length 2 and cursor 1, and one undo then gives the blank grid and
\* cursor 0
C4_OneEntryPerStroke ==
    /\ [][lastOp' = "strokeUp" =>
            /\ history' = SubSeq(history, 1, historyStep + 1) \o <<pixels>>
            /\ Len(history') = historyStep + 2
            /\ historyStep' = historyStep + 1
            /\ pixels' = pixels]_vars
    /\ []((FreshPenStroke /\ lastOp = "strokeUp") =>
            /\ Painted(pixels) = DoneCells
            /\ \A rc \in DoneCells : pixels[rc[1]][rc[2]] = hsvToCss(selectedColor)
            /\ Len(history) = 2
            /\ historyStep = 1)
    /\ []((FreshPenStroke /\ lastOp = "undo") =>
            /\ pixels = Blank3
            /\ Len(history) = 2
            /\ historyStep = 0)

\* the stroke over (0,0), (0,1), (0,2) committed and undone
C4_Witness ==
    /\ FreshPenStroke
    /\ lastOp = "undo"
    /\ script.done = <<Cell(0, 0), Cell(0, 1), Cell(0, 2)>>
    /\ Painted(history[2]) = {<<0, 0>>, <<0, 1>>, <<0, 2>>}
    /\ pixels = Blank3
    /\ historyStep = 0

----------------------------------------------------------------------------
(* SpecCorner: a 5 x 5 grid and the pointer moving over the cell (-1, -1)  *)
(* outside its top left corner, in every state and with every pen.         *)

CornerPens == 1..5
Blank5 == BlankGrid(5, 5)
Full5 == [r \in 0..4 |-> [c \in 0..4 |-> hsvToCss("hsv1")]]
CornerGrids == {Blank5, Full5, [Blank5 EXCEPT ![0][0] = hsvToCss("hsv1")]}

\* Idle with the grid committed, or in a stroke that has painted it
InitCorner ==
    /\ logicHeight = 5
    /\ logicWidth = 5
    /\ pixels \in CornerGrids
    /\ isDrawing \in BOOLEAN
    /\ history = IF isDrawing THEN <<Blank5>> ELSE <<Blank5, pixels>>
    /\ historyStep = Len(history) - 1
    /\ hoverPos = NULL
    /\ raised = FALSE
    /\ isGrab \in BOOLEAN
    /\ penSize \in CornerPens
    /\ selectedTool \in Tools
    /\ selectedColor \in Colors
    /\ lastOp = "mount"
    /\ preStroke = Blank5
    /\ dropped = 0
    /\ script = NoScript

\* the pointer-move whose mapped cell is (-1, -1)
MoveToCorner == handleMouseMove(XOf(-1), YOf(-1))

CornerMove ==
    /\ MoveToCorner
    /\ lastOp' = "move"
    /\ UNCHANGED <<preStroke, dropped, script>>

CornerTool ==
    /\ \E size \in CornerPens, tool \in Tools : selectTool(size, tool, selectedColor)
    /\ lastOp' = "tool"
    /\ UNCHANGED <<preStroke, dropped, script>>

CornerGrab ==
    /\ toggleGrab
    /\ lastOp' = "grab"
    /\ UNCHANGED <<preStroke, dropped, script>>

NextCorner ==
    \/ CornerMove
    \/ CornerTool
    \/ CornerGrab

SpecCorner == InitCorner /\ [][NextCorner]_vars

\* C8, as claimed: a pointer-move mapped to (-1, -1) raises nothing and
\* changes no cell, in every state and for every pen size
C8_CornerMoveChangesNothing ==
    [][MoveToCorner => (pixels' = pixels /\ ~raised')]_vars

\* C8, amended: a pointer-move mapped to (-1, -1) raises nothing; it changes
\* no cell when the pen size is 1, when no stroke is in progress or when grab
\* mode is on; in a stroke with pen size 2 and grab mode off it writes the
\* brush colour to (0, 0) and to no other cell
C8_CornerMove ==
    [][MoveToCorner =>
          /\ ~raised'
          /\ (penSize = 1 \/ ~isDrawing \/ isGrab) => pixels' = pixels
          /\ (penSize = 2 /\ isDrawing /\ ~isGrab) =>
                pixels' = [pixels EXCEPT ![0][0] = BrushColor]]_vars

\* the pointer has just moved to (-1, -1) during a stroke with pen size 1
C8_Witness ==
    /\ lastOp = "move"
    /\ hoverPos = Some(Cell(-1, -1))
    /\ isDrawing
    /\ ~isGrab
    /\ penSize = 1
    /\ selectedTool = "pen"
    /\ pixels = Blank5

----------------------------------------------------------------------------
(* SpecStamp: one stamp.  The component is Idle on a grid of 3 x 2 or of   *)
(* 10 x 10 cells, blank or fully painted, with any pen, tool and grab      *)
(* mode; the pointer hovers over cells on and around the grid and goes     *)
(* down on the cell it hovers over.                                        *)

StampSizes == {<<3, 2>>, <<10, 10>>}
StampCoords == {-4, -1, 0, 1, 5, 8, 9}
StampPens == 1..5

FullGrid(h, w) == [r \in 0..(h - 1) |-> [c \in 0..(w - 1) |-> hsvToCss("hsv1")]]

InitStamp ==
    /\ \E hw \in StampSizes :
          /\ logicHeight = hw[1]
          /\ logicWidth = hw[2]
    /\ pixels \in {BlankGrid(logicHeight, logicWidth), FullGrid(logicHeight, logicWidth)}
    /\ history = IF pixels = BlankGrid(logicHeight, logicWidth)
                 THEN <<pixels>>
                 ELSE <<BlankGrid(logicHeight, logicWidth), pixels>>
    /\ historyStep = Len(history) - 1
    /\ isDrawing = FALSE
    /\ hoverPos = NULL
    /\ raised = FALSE
    /\ isGrab \in BOOLEAN
    /\ penSize \in StampPens
    /\ selectedTool \in Tools
    /\ selectedColor \in Colors
    /\ lastOp = "mount"
    /\ preStroke = pixels
    /\ dropped = 0
    /\ script = NoScript

StampHover ==
    /\ ~isDrawing
    /\ \E r \in StampCoords, c \in StampCoords : handleMouseMove(XOf(c), YOf(r))
    /\ lastOp' = "move"
    /\ UNCHANGED <<preStroke, dropped, script>>

\* the pointer goes down where it hovers
DownAtHover == handleMouseDown(XOf(hoverPos[1].col), YOf(hoverPos[1].row))

StampDown ==
    /\ ~isDrawing
    /\ hoverPos # NULL
    /\ DownAtHover
    /\ lastOp' = "down"
    /\ preStroke' = pixels
    /\ UNCHANGED <<dropped, script>>

NextStamp ==
    \/ StampHover
    \/ StampDown

SpecStamp == InitStamp /\ [][NextStamp]_vars

\* the grid g with the cells of the set cells that are on the grid set to v
WithCells(g, cells, v) ==
    [r \in 0..(logicHeight - 1) |-> [c \in 0..(logicWidth - 1) |->
        IF <<r, c>> \in cells THEN v ELSE g[r][c]]]

\* the hover cell
HoverRow == hoverPos[1].row
HoverCol == hoverPos[1].col

\* C12: with grab mode off a stamp of pen size 1 at (row, col) sets (row, col)
\* to the brush colour, a stamp of pen size 2 sets the four cells
\* (row + dy, col + dx) with dy, dx in {0, 1}; of these cells only the ones on
\* the grid are written, and every other cell of the grid is as it was
C12_UntrimmedFootprint ==
    [][(lastOp' = "down" /\ ~isGrab /\ penSize \in {1, 2}) =>
          /\ penSize = 1 =>
                pixels' = WithCells(preStroke', {<<HoverRow, HoverCol>>}, BrushColor)
          /\ penSize = 2 =>
                pixels' = WithCells(preStroke',
                                    {HoverRow, HoverRow + 1} \X {HoverCol, HoverCol + 1},
                                    BrushColor)
          /\ DimensionsOk(pixels')
          /\ ~raised']_vars

\* a pen-size-2 paint stamp at (9, -1) on the blank 10 x 10 grid: of the four
\* cells only (9, 0) is on the grid
C12_Witness ==
    /\ lastOp = "down"
    /\ ~isGrab
    /\ penSize = 2
    /\ selectedTool = "pen"
    /\ logicHeight = 10
    /\ hoverPos = Some(Cell(9, -1))
    /\ preStroke = BlankGrid(10, 10)
    /\ pixels = [preStroke EXCEPT ![9][0] = hsvToCss(selectedColor)]

\* the offsets of the four corner 2 x 2 blocks of the p x p square
CornerBlocks(p) == {0, 1, p - 2, p - 1} \X {0, 1, p - 2, p - 1}

\* the offsets of the p x p square outside its four corner 2 x 2 blocks
Trimmed(p) == ((0..(p - 1)) \X (0..(p - 1))) \ CornerBlocks(p)

Written(row, col) ==
    LET unwritten == [r \in 0..(logicHeight - 1) |-> [c \in 0..(logicWidth - 1) |-> "unwritten"]]
        st == Stamp(unwritten, row, col)
    IN  {rc \in (0..(logicHeight - 1)) \X (0..(logicWidth - 1)) :
            st.grid[rc[1]][rc[2]] # "unwritten"}

\* C18: whenever the preview is shown (a hover position, no stroke in
\* progress, grab mode off) its cells are the cells a stamp at the hover cell
\* with the same pen size writes, on either grid and with every pen size
C18_PreviewIsStampFootprint ==
    (hoverPos # NULL /\ ~isDrawing /\ ~isGrab) =>
        drawGhostBrush = Written(HoverRow, HoverCol)

\* pen size 5 hovering over (5, 8) on the 10 x 10 grid: of the trimmed
\* footprint only (7, 8) and (7, 9) are on the grid
C18_Witness ==
    /\ hoverPos = Some(Cell(5, 8))
    /\ ~isDrawing
    /\ ~isGrab
    /\ penSize = 5
    /\ logicWidth = 10
    /\ drawGhostBrush = {<<7, 8>>, <<7, 9>>}

----------------------------------------------------------------------------
(* SpecRefs: the rows of the grids as JavaScript arrays, which are objects *)
(* with an identity.  A row is a record of its identity and its cells; two *)
(* grids that hold a row of the same identity share that array, and an     *)
(* assignment newPixels[r][c] = v changes it in every grid that holds it.  *)
(* pixels and the entries of history are grids of such rows, on a grid of  *)
(* 2 rows and 1 column, with pen size 1.                                   *)

RefHeight == 2
RefWidth == 1

\* the longest history the commits of SpecRefs build
MaxRefHistory == 2
RefXs == {XOf(c) : c \in 0..(RefWidth - 1)}
RefYs == {YOf(r) : r \in 0..(RefHeight - 1)}

\* the identities of the rows of a grid, and of the rows of all entries
RowIds(g) == {g[r].id : r \in DOMAIN g}
HistoryIds(h) == UNION {RowIds(h[i]) : i \in 1..Len(h)}

\* the arrays the component holds
UsedIds == RowIds(pixels) \cup HistoryIds(history)

\* the cell values of a grid of rows
Contents(g) == [r \in DOMAIN g |-> g[r].cells]

\* the identities of n newly created arrays: the first n not in use
RECURSIVE FreshFrom(_, _, _)
FreshFrom(used, n, k) ==
    IF n = 0 THEN <<>>
    ELSE IF k \in used
         THEN FreshFrom(used, n, k + 1)
         ELSE <<k>> \o FreshFrom(used, n - 1, k + 1)

\* a copy that returns the rows it was given
SameRows(g, used) == g

\* g.map((row) => [...row]): every row of the result is a new array
CopyRows(g, used) ==
    LET ids == FreshFrom(used, Cardinality(DOMAIN g), 0)
    IN  [r \in DOMAIN g |-> [id |-> ids[r + 1], cells |-> g[r].cells]]

\* newPixels[r][c] = v: the array newPixels[r] is changed, in st.grid and in
\* every history entry that holds it
WriteRow(st, r, c, v) ==
    LET id == st.grid[r].id
        Upd(row) == IF row.id = id THEN [row EXCEPT !.cells[c] = v] ELSE row
    IN  [grid |-> [x \in DOMAIN st.grid |-> Upd(st.grid[x])],
         hist |-> [i \in 1..Len(st.hist) |->
                     [x \in DOMAIN st.hist[i] |-> Upd(st.hist[i][x])]]]

\* the loops of drawPixel on rows with an identity
RECURSIVE StampRowsFrom(_, _, _, _)
StampRowsFrom(st, row, col, k) ==
    IF k >= penSize * penSize THEN st
    ELSE LET dy == k \div penSize
             dx == k % penSize
             r == row + dy
             c == col + dx
         IN  IF penSize > 2 /\ isEdge(penSize, dy, dx)
             THEN StampRowsFrom(st, row, col, k + 1)
             ELSE IF InBounds(r, c)
                  THEN StampRowsFrom(WriteRow(st, r, c, BrushColor), row, col, k + 1)
                  ELSE StampRowsFrom(st, row, col, k + 1)

\* drawPixel(row, col)
drawPixelRows(row, col) ==
    IF isGrab
    THEN UNCHANGED <<pixels, history>>
    ELSE \E st \in {StampRowsFrom([grid |-> CopyRows(pixels, UsedIds), hist |-> history],
                                  row, col, 0)} :
            /\ pixels' = st.grid
            /\ history' = st.hist

\* the effect on [historyStep]
HistoryStepEffectRows(oldPixels, newHistory, oldStep, newStep) ==
    IF newStep # oldStep /\ (newStep + 1) \in DOMAIN newHistory
    THEN CopyRows(newHistory[newStep + 1], RowIds(oldPixels) \cup HistoryIds(newHistory))
    ELSE oldPixels

InitRefs ==
    /\ logicHeight = RefHeight
    /\ logicWidth = RefWidth
    /\ pixels = [r \in 0..(RefHeight - 1) |->
                    [id |-> r, cells |-> [c \in 0..(RefWidth - 1) |-> TRANSPARENT]]]
    /\ history = <<CopyRows(pixels, RowIds(pixels))>>
    /\ historyStep = 0
    /\ isDrawing = FALSE
    /\ hoverPos = NULL
    /\ raised = FALSE
    /\ isGrab = FALSE
    /\ penSize = 1
    /\ selectedTool = "pen"
    /\ selectedColor \in Colors
    /\ lastOp = "mount"
    /\ preStroke = pixels
    /\ dropped = 0
    /\ script = NoScript

\* handleMouseDown
RefsDown ==
    /\ \E x \in RefXs, y \in RefYs :
          drawPixelRows(getCell(x, y).row, getCell(x, y).col)
    /\ isDrawing' = TRUE
    /\ lastOp' = "down"
    /\ UNCHANGED <<historyStep, hoverPos, isGrab, penSize, selectedTool, selectedColor,
                   logicWidth, logicHeight, raised, preStroke, dropped, script>>

\* handleMouseMove
RefsMove ==
    /\ \E x \in RefXs, y \in RefYs :
          /\ hoverPos' = Some(getCell(x, y))
          /\ IF isDrawing
             THEN drawPixelRows(getCell(x, y).row, getCell(x, y).col)
             ELSE UNCHANGED <<pixels, history>>
    /\ lastOp' = "move"
    /\ UNCHANGED <<historyStep, isDrawing, isGrab, penSize, selectedTool, selectedColor,
                   logicWidth, logicHeight, raised, preStroke, dropped, script>>

\* handleMouseUp
RefsUp ==
    /\ historyStep + 2 <= MaxRefHistory
    /\ isDrawing' = FALSE
    /\ LET newPixels == CopyRows(pixels, UsedIds)
           newHistory == Slice(history, historyStep + 1)
       IN  history' = Append(newHistory, newPixels)
    /\ historyStep' = historyStep + 1
    /\ pixels' = HistoryStepEffectRows(pixels, history', historyStep, historyStep')
    /\ lastOp' = "up"
    /\ UNCHANGED <<hoverPos, isGrab, penSize, selectedTool, selectedColor,
                   logicWidth, logicHeight, raised, preStroke, dropped, script>>

\* handleKeyDown with Ctrl+Z
RefsUndo ==
    /\ historyStep' = Max(0, historyStep - 1)
    /\ pixels' = HistoryStepEffectRows(pixels, history, historyStep, historyStep')
    /\ lastOp' = "undo"
    /\ UNCHANGED <<history, isDrawing, hoverPos, isGrab, penSize, selectedTool,
                   selectedColor, logicWidth, logicHeight, raised, preStroke, dropped,
                   script>>

RefsTool ==
    /\ \E tool \in Tools : selectTool(1, tool, selectedColor)
    /\ lastOp' = "tool"
    /\ UNCHANGED <<preStroke, dropped, script>>

NextRefs ==
    \/ RefsDown
    \/ RefsMove
    \/ RefsUp
    \/ RefsUndo
    \/ RefsTool

SpecRefs == InitRefs /\ [][NextRefs]_vars

\* C16: the live grid shares no row array with a history entry; a pointer-down
\* or pointer-move changes the cells of no history entry, whatever it stamps;
\* a commit keeps the cells of the entries up to the old cursor, and every
\* other event keeps the cells of all entries
C16_HistoryIndependent ==
    /\ [](RowIds(pixels) \cap HistoryIds(history) = {})
    /\ [][IF lastOp' = "up"
          THEN \A i \in 1..(historyStep + 1) :
                  Contents(history'[i]) = Contents(history[i])
          ELSE /\ Len(history') = Len(history)
               /\ \A i \in 1..Len(history) :
                     Contents(history'[i]) = Contents(history[i])]_vars

\* a committed stroke over (0, 0), an undo, and a new stroke that has stamped
\* (1, 0): both entries hold what they held
C16_Witness ==
    /\ lastOp \in {"down", "move"}
    /\ isDrawing
    /\ historyStep = 0
    /\ Len(history) = 2
    /\ Contents(history[1]) = BlankGrid(RefHeight, RefWidth)
    /\ Contents(history[2]) = [BlankGrid(RefHeight, RefWidth) EXCEPT
                                  ![0][0] = hsvToCss(selectedColor)]
    /\ Contents(pixels) = [BlankGrid(RefHeight, RefWidth) EXCEPT
                              ![1][0] = hsvToCss(selectedColor)]

----------------------------------------------------------------------------
(* SpecMap: getCell as a function of the pointer position, the origin of   *)
(* the canvas, the zoom and the cell size.  The scenario fixes an origin,  *)
(* a zoom and a cell size; the pointer moves to any position on, left of   *)
(* and above the canvas, and the hover position is the cell getCell gives. *)

MapOrigins == {0, 7}
MapZooms == 1..3
MapCellSizes == {1, 2, 5}
MapPointers == -8..16

InitMap ==
    /\ Mounted(GridHeight, GridWidth)
    /\ isGrab = FALSE
    /\ penSize = 1
    /\ selectedTool = "pen"
    /\ selectedColor \in Colors
    /\ \E left \in MapOrigins, top \in MapOrigins, z \in MapZooms, size \in MapCellSizes :
          script = [left |-> left, top |-> top, zoom |-> z, pixelSize |-> size,
                    clientX |-> left, clientY |-> top]

\* handleMouseMove while no stroke is in progress: setHoverPos(getCell(e))
MapMove ==
    /\ ~isDrawing
    /\ \E x \in MapPointers, y \in MapPointers :
          /\ script' = [script EXCEPT !.clientX = x, !.clientY = y]
          /\ hoverPos' = Some(getCellAt(x, y, script.left, script.top,
                                        script.zoom, script.pixelSize))
    /\ lastOp' = "move"
    /\ UNCHANGED <<pixels, history, historyStep, isDrawing, isGrab, penSize,
                   selectedTool, selectedColor, logicWidth, logicHeight, raised,
                   preStroke, dropped>>

NextMap == MapMove

SpecMap == InitMap /\ [][NextMap]_vars

\* the screen pixels one cell spans
CellSpan == script.zoom * script.pixelSize

\* n is the floor of a / b, for b > 0
IsFloor(n, a, b) == n * b <= a /\ a < (n + 1) * b

\* C17: the cell getCell returns has col = floor(((clientX - left) / zoom) /
\* pixelSize) and row likewise; a position left of the origin has a negative
\* col and one above it a negative row; and a pointer-move that adds exactly
\* zoom * pixelSize to clientX adds exactly 1 to col, likewise clientY and row
C17_MapToCellMonotonic ==
    /\ [](hoverPos # NULL =>
            /\ IsFloor(HoverCol, script.clientX - script.left, CellSpan)
            /\ IsFloor(HoverRow, script.clientY - script.top, CellSpan)
            /\ script.clientX < script.left => HoverCol < 0
            /\ script.clientY < script.top => HoverRow < 0
            /\ ~raised)
    /\ [][hoverPos # NULL =>
            /\ script'.clientX = script.clientX + CellSpan =>
                  hoverPos'[1].col = HoverCol + 1
            /\ script'.clientY = script.clientY + CellSpan =>
                  hoverPos'[1].row = HoverRow + 1]_vars

\* zoom 2, cell size 2, origin (7, 7): the pointer at (-3, 16) is in the
\* cell of row 2 and col -3
C17_Witness ==
    /\ lastOp = "move"
    /\ script.zoom = 2
    /\ script.pixelSize = 2
    /\ script.left = 7
    /\ script.top = 7
    /\ script.clientX = -3
    /\ script.clientY = 16
    /\ hoverPos = Some(Cell(2, -3))

====
